---- MODULE Spec2Model ----
(***************************************************************************)
(* Model of package llog (src/llog.go): a level gate in front of the       *)
(* standard logger, and size-triggered wrapping of the log file.           *)
(*                                                                         *)
(* The file system is modelled as a directory (path -> inode), the         *)
(* content of each inode (a number of fixed-length lines) and a table of   *)
(* open-file handles (os.File).  The standard logger is its output         *)
(* writer (logOutput): os.Stderr or a handle.                              *)
(***************************************************************************)
EXTENDS Integers, Sequences, FiniteSets, TLC

\* ---------------------------------------------------------------- bounds
\* Handles (os.File values) and inodes that can be alive at once.
MaxHandles == 3
MaxInodes == 4
\* Length in bytes of one written line (date, time, file:line, prefix, message).
LineBytes == 52
\* A file holds at most this many lines (larger files are not explored).
MaxLines == 21

\* ------------------------------------------------------ program constants
LvlTrace == 1
LvlDebug == 2
LvlInfo == 3
LvlWarn == 4
LvlError == 5
LvlPanic == 6
CheckInterval == 20
BytesPerKB == 1024

\* The nil file, and os.Stderr as the logger's output.
Nil == 0
Stderr == -1

\* ------------------------------------------------------------- inputs
\* Level is an int: SetLevel accepts values outside the named levels too.
\* The lowest level, the initial one, and one above every named level.
LevelArgs == {LvlTrace, LvlInfo, LvlPanic + 1}
\* The path of the log file, and a path that cannot be opened (its
\* directory does not exist).
LogPath == "x.log"
BadPath == "nodir/y.log"
Paths == {LogPath, BadPath}
KBArgs == {0, 1}

Backup(fileName) == fileName \o ".1"
AllPaths == Paths \cup {Backup(p) : p \in Paths}
Handles == 1 .. MaxHandles
Inodes == 1 .. MaxInodes

\* Outcomes of the file-system calls of one size check and rotation:
\* TRUE when the call succeeds.
Envs == [sync : BOOLEAN, stat : BOOLEAN, remove : BOOLEAN,
         rename : BOOLEAN, open : BOOLEAN]
AllOK == [sync |-> TRUE, stat |-> TRUE, remove |-> TRUE,
          rename |-> TRUE, open |-> TRUE]

\* The five entry points that go through loglevel, with level and prefix.
EntryPoints == {"Trace", "Debug", "Info", "Warn", "Error"}
LevelOf(e) ==
  CASE e = "Trace" -> LvlTrace
    [] e = "Debug" -> LvlDebug
    [] e = "Info" -> LvlInfo
    [] e = "Warn" -> LvlWarn
    [] e = "Error" -> LvlError
    [] e = "Panic" -> LvlPanic
PrefixOf(e) ==
  CASE e = "Trace" -> "TRACE - "
    [] e = "Debug" -> "DEBUG - "
    [] e = "Info" -> "INFO - "
    [] e = "Warn" -> "WARN - "
    [] e = "Error" -> "ERROR - "
    [] e = "Panic" -> "PANIC - "

\* The goroutines of the concurrent specification, and the number of
\* calls they make in all.
NProcs == 2
MaxCalls == 3
Procs == 1 .. NProcs

\* ------------------------------------------------------------- state
VARIABLES
  globLevelSet,    \* llog.go:37
  globFileName,    \* llog.go:40
  globFile,        \* llog.go:43, a handle or Nil
  globMaxSizeKB,   \* llog.go:46
  globCounter,     \* llog.go:82
  logOutput,       \* the standard logger's writer: Stderr or a handle
  dir,             \* file system: path -> inode (0: no such file)
  lines,           \* file system: inode -> number of lines in the file
  hIno,            \* handle -> inode it was opened on (0: free slot)
  hOpen,           \* handle -> not yet closed
  last,            \* what the most recent call did (observation only)
  globMutex,       \* llog.go:49, the goroutine holding it or 0
  pc,              \* goroutine -> the line of llog.go it is at, or "idle"
  frame,           \* goroutine -> arguments and locals of its call
  ncalls           \* calls started so far by the goroutines

vars == <<globLevelSet, globFileName, globFile, globMaxSizeKB, globCounter,
          logOutput, dir, lines, hIno, hOpen, last, globMutex, pc, frame,
          ncalls>>

\* The variables of the goroutines: calls made one at a time leave them.
gvars == <<globMutex, pc, frame, ncalls>>

\* The program state as one record, so that the code of a function is an
\* operator from state to state.
G ==
  [level |-> globLevelSet, fileName |-> globFileName, file |-> globFile,
   maxKB |-> globMaxSizeKB, counter |-> globCounter, out |-> logOutput,
   dir |-> dir, lines |-> lines, hIno |-> hIno, hOpen |-> hOpen]

\* (g is evaluated once, as the value v.)
Store(g) ==
  \E v \in {g} :
    /\ globLevelSet' = v.level
    /\ globFileName' = v.fileName
    /\ globFile' = v.file
    /\ globMaxSizeKB' = v.maxKB
    /\ globCounter' = v.counter
    /\ logOutput' = v.out
    /\ dir' = v.dir
    /\ lines' = v.lines
    /\ hIno' = v.hIno
    /\ hOpen' = v.hOpen

Min(S) == CHOOSE x \in S : \A y \in S : x <= y

\* --------------------------------------------------------- file system
FreeHandles(g) == {h \in Handles : g.hIno[h] = 0}
UsedInodes(g) ==
  {g.dir[p] : p \in AllPaths} \cup {g.hIno[h] : h \in Handles}
FreeInodes(g) == Inodes \ UsedInodes(g)

\* os.OpenFile(name, O_RDWR|O_CREATE|O_APPEND, 0666): the handle, or Nil
\* with an error.  ok = FALSE is a failure of the system call.
CanOpen(g, name, ok) ==
  /\ ok
  /\ name # BadPath
  /\ name \in AllPaths
  /\ FreeHandles(g) # {}
  /\ g.dir[name] # 0 \/ FreeInodes(g) # {}

OpenFile(g, name, ok) ==
  IF ~CanOpen(g, name, ok) THEN [g |-> g, h |-> Nil]
  ELSE
    LET h == Min(FreeHandles(g))
        create == g.dir[name] = 0
        i == IF create THEN Min(FreeInodes(g)) ELSE g.dir[name]
    IN [g |-> [g EXCEPT !.dir[name] = i, !.hIno[h] = i, !.hOpen[h] = TRUE,
                        !.lines[i] = IF create THEN 0 ELSE @],
        h |-> h]

\* File.Close
Close(g, h) == IF h = Nil THEN g ELSE [g EXCEPT !.hOpen[h] = FALSE]

\* os.Remove(name)
Remove(g, name, ok) ==
  IF ok /\ name \in AllPaths /\ g.dir[name] # 0
  THEN [g EXCEPT !.dir[name] = 0]
  ELSE g

\* Mutant of Rename: the rename is not performed.
RenameSkipped(g, old, new, ok) == g

\* Mutant of Rename: the new name is made, the old name is kept.
RenameKeepsOld(g, old, new, ok) ==
  IF ok /\ old \in AllPaths /\ new \in AllPaths /\ g.dir[old] # 0
  THEN [g EXCEPT !.dir[new] = g.dir[old]]
  ELSE g

\* os.Rename(old, new): replaces new when it exists.
Rename(g, old, new, ok) ==
  IF ok /\ old \in AllPaths /\ new \in AllPaths /\ g.dir[old] # 0
  THEN [g EXCEPT !.dir[new] = g.dir[old], !.dir[old] = 0]
  ELSE g

\* File.Stat succeeds on an open handle when the system call does.
StatOK(g, h, ok) == ok /\ h # Nil /\ g.hOpen[h]
\* info.Size()
Size(g, h) == g.lines[g.hIno[h]] * LineBytes

\* Handles that nothing refers to any more are dropped (SetFile never
\* closes the file it replaces: the descriptor leaks, unobservably), and
\* so are inodes with no name and no handle.  The handles and inodes that
\* remain are renumbered in a fixed order: which descriptor or inode
\* number the system hands out is not observable by the program.
Collect(g) ==
  LET \* the live handles, in the order globFile, logOutput
      oh(v) == IF v.out = Stderr THEN Nil ELSE v.out
      h1(v) == IF v.file # Nil THEN v.file ELSE oh(v)
      h2(v) == IF v.file # Nil /\ oh(v) # Nil /\ oh(v) # v.file
               THEN oh(v) ELSE Nil
      \* the inodes in use, in the order of first use below
      c(v) == <<v.dir[LogPath], v.dir[Backup(LogPath)], v.dir[BadPath],
                v.dir[Backup(BadPath)],
                IF h1(v) = Nil THEN 0 ELSE v.hIno[h1(v)],
                IF h2(v) = Nil THEN 0 ELSE v.hIno[h2(v)]>>
      firsts(cv) ==
        {k \in 1 .. 6 : cv[k] # 0 /\ \A j \in 1 .. (k - 1) : cv[j] # cv[k]}
      \* the new number of inode i, and the old number of new inode n
      rank(cv, fs, i) ==
        IF i = 0 THEN 0
        ELSE Cardinality({j \in fs : j <= CHOOSE k \in fs : cv[k] = i})
      at(cv, fs, n) ==
        cv[CHOOSE k \in fs : Cardinality({j \in fs : j <= k}) = n]
      renumber(v, a, b, cv, fs) ==
        [v EXCEPT
           !.file = IF v.file = Nil THEN Nil ELSE 1,
           !.out = IF v.out = Stderr THEN Stderr
                   ELSE IF v.out = Nil THEN Nil
                   ELSE IF v.out = a THEN 1 ELSE 2,
           !.dir = [p \in AllPaths |-> rank(cv, fs, v.dir[p])],
           !.hIno = [h \in Handles |->
                       IF h = 1 /\ a # Nil THEN rank(cv, fs, v.hIno[a])
                       ELSE IF h = 2 /\ b # Nil THEN rank(cv, fs, v.hIno[b])
                       ELSE 0],
           !.hOpen = [h \in Handles |->
                       IF h = 1 /\ a # Nil THEN v.hOpen[a]
                       ELSE IF h = 2 /\ b # Nil THEN v.hOpen[b]
                       ELSE FALSE],
           !.lines = [i \in Inodes |->
                       IF i <= Cardinality(fs) THEN v.lines[at(cv, fs, i)]
                       ELSE 0]]
      \* each stage is evaluated once, as the value of a bound variable
      s1 == {<<v, h1(v), h2(v), c(v)>> : v \in {g}}
      s2 == {<<x[1], x[2], x[3], x[4], firsts(x[4])>> : x \in s1}
  IN CHOOSE r \in {renumber(x[1], x[2], x[3], x[4], x[5]) : x \in s2} : TRUE

\* ------------------------------------------------------ standard logger
\* log.Output: one line to the logger's writer.  A write to a nil or
\* closed file fails and the line is lost (llog ignores the error).
Output(g) ==
  IF g.out = Stderr THEN [g |-> g, dest |-> "stderr"]
  ELSE IF g.out = Nil THEN [g |-> g, dest |-> "lost"]
  ELSE IF g.hOpen[g.out]
  THEN [g |-> [g EXCEPT !.lines[g.hIno[g.out]] = @ + 1],
        dest |-> "file"]
  ELSE [g |-> g, dest |-> "lost"]

\* ------------------------------------------------------------- llog.go
\* SetLevel, llog.go:59-61
SetLevelOp(g, level) == [g EXCEPT !.level = level]

\* Mutant of SetFile: a successful SetFile also resets the counter.
SetFileOpReset(g, fileName, maxSizeKB, ok) ==
  LET g1 == [g EXCEPT !.fileName = fileName]
      o == OpenFile(g1, fileName, ok)
  IN IF o.h = Nil
     THEN [g |-> [o.g EXCEPT !.file = Nil], err |-> TRUE]
     ELSE [g |-> [o.g EXCEPT !.file = o.h, !.out = o.h, !.maxKB = maxSizeKB,
                             !.counter = 0],
           err |-> FALSE]

\* Mutant of SetFile: a failed open leaves globFile as it was.
SetFileOpKeepsFile(g, fileName, maxSizeKB, ok) ==
  LET g1 == [g EXCEPT !.fileName = fileName]
      o == OpenFile(g1, fileName, ok)
  IN IF o.h = Nil
     THEN [g |-> o.g, err |-> TRUE]
     ELSE [g |-> [o.g EXCEPT !.file = o.h, !.out = o.h, !.maxKB = maxSizeKB],
           err |-> FALSE]

\* SetFile, llog.go:66-79
SetFileOp(g, fileName, maxSizeKB, ok) ==
  LET g1 == [g EXCEPT !.fileName = fileName]
      o == OpenFile(g1, fileName, ok)
  IN IF o.h = Nil
     THEN [g |-> [o.g EXCEPT !.file = Nil], err |-> TRUE]
     ELSE [g |-> [o.g EXCEPT !.file = o.h, !.out = o.h, !.maxKB = maxSizeKB],
           err |-> FALSE]

\* The comparison of llog.go:101.
TimeToWrap(size, maxSizeKB) == (size \div BytesPerKB) >= maxSizeKB

\* Mutant of the test of llog.go:97: the size is checked on every call.
CheckDueAlways(counter) == counter >= 1

\* Mutant of the test of llog.go:97: off by one.
CheckDueLate(counter) == counter > CheckInterval

\* The test of llog.go:97.
CheckDue(counter) == counter >= CheckInterval

\* The failed calls among those made.
Failed(ops, env) ==
  {o \in {"sync", "stat", "remove", "rename", "open"} :
     /\ \E k \in 1 .. Len(ops) : ops[k] = o
     /\ ~env[o]}

\* Mutant of wrapLogIfNeeded: the call is not counted.
wrapLogIfNeededNoCount(g, env) ==
  [g |-> g, ops |-> <<>>, abort |-> FALSE, checked |-> FALSE,
   rotated |-> FALSE]

\* wrapLogIfNeeded, llog.go:87-111.  abort: info is nil after a failed
\* Stat, and info.Size() is a nil dereference (a run-time panic).
wrapLogIfNeeded(g, env) ==
  IF g.file = Nil
  THEN [g |-> g, ops |-> <<>>, abort |-> FALSE, checked |-> FALSE,
        rotated |-> FALSE]
  ELSE
    LET g0 == [g EXCEPT !.counter = @ + 1] IN
    IF ~CheckDue(g0.counter)
    THEN [g |-> g0, ops |-> <<>>, abort |-> FALSE, checked |-> FALSE,
          rotated |-> FALSE]
    ELSE
      LET g1 == [g0 EXCEPT !.counter = 0] IN
      IF ~StatOK(g1, g1.file, env.stat)
      THEN [g |-> g1, ops |-> <<"sync", "stat">>, abort |-> TRUE,
            checked |-> TRUE, rotated |-> FALSE]
      ELSE IF ~TimeToWrap(Size(g1, g1.file), g1.maxKB)
      THEN [g |-> g1, ops |-> <<"sync", "stat">>, abort |-> FALSE,
            checked |-> TRUE, rotated |-> FALSE]
      ELSE
        LET g2 == [g1 EXCEPT !.out = Stderr]
            g3 == Close(g2, g2.file)
            backupFileName == Backup(g3.fileName)
            g4 == Remove(g3, backupFileName, env.remove)
            g5 == Rename(g4, g4.fileName, backupFileName, env.rename)
            r == SetFileOp(g5, g5.fileName, g5.maxKB, env.open)
        IN [g |-> r.g,
            ops |-> <<"sync", "stat", "close", "remove", "rename", "open">>,
            abort |-> FALSE, checked |-> TRUE, rotated |-> TRUE]

NoWrap(g) ==
  [g |-> g, ops |-> <<>>, abort |-> FALSE, checked |-> FALSE,
   rotated |-> FALSE]

\* Mutant of the gate: every call passes.
PassesAlways(level, levelSet) == TRUE

\* The gate of llog.go:114 and llog.go:148.
Passes(level, levelSet) == level >= levelSet

\* Mutant of loglevel: the record is emitted before the rotation check.
loglevelOutputFirst(g, level, env) ==
  IF Passes(level, g.level)
  THEN LET o == Output(g)
           w == wrapLogIfNeeded(o.g, env)
       IN [g |-> w.g, w |-> w, dest |-> o.dest]
  ELSE [g |-> g, w |-> NoWrap(g), dest |-> "none"]

\* loglevel, llog.go:113-118
loglevel(g, level, env) ==
  IF Passes(level, g.level)
  THEN LET w == wrapLogIfNeeded(g, env) IN
       IF w.abort
       THEN [g |-> w.g, w |-> w, dest |-> "none"]
       ELSE LET o == Output(w.g) IN
            [g |-> o.g, w |-> w, dest |-> o.dest]
  ELSE [g |-> g, w |-> NoWrap(g), dest |-> "none"]

\* Panic, llog.go:147-152
PanicOp(g) ==
  IF Passes(LvlPanic, g.level)
  THEN LET o == Output(g) IN
       [g |-> o.g, dest |-> o.dest, panic |-> TRUE]
  ELSE [g |-> g, dest |-> "none", panic |-> FALSE]

\* ------------------------------------------------------------ actions
\* onFile: wrapLogIfNeeded returned with a file active and the logger
\* writing to it.
NoFrame == [op |-> "", level |-> 0, fileName |-> "", maxKB |-> 0,
            size |-> 0, backup |-> "", onFile |-> FALSE]

NoLast ==
  [op |-> "init", rec |-> "", dest |-> "none", err |-> FALSE,
   abort |-> "none", ops |-> <<>>, fail |-> {}, checked |-> FALSE,
   rotated |-> FALSE, replaced |-> FALSE]

Init ==
  /\ globLevelSet = LvlInfo
  /\ globFileName = ""
  /\ globFile = Nil
  /\ globMaxSizeKB = 0
  /\ globCounter = 0
  /\ logOutput = Stderr
  /\ dir = [p \in AllPaths |-> 0]
  /\ lines = [i \in Inodes |-> 0]
  /\ hIno = [h \in Handles |-> 0]
  /\ hOpen = [h \in Handles |-> FALSE]
  /\ last = NoLast
  /\ globMutex = 0
  /\ pc = [p \in Procs |-> "idle"]
  /\ frame = [p \in Procs |-> NoFrame]
  /\ ncalls = 0

\* The file the next line would be appended to has room for it.
Room(g) ==
  IF g.out \in {Stderr, Nil} THEN TRUE
  ELSE IF ~g.hOpen[g.out] THEN TRUE
  ELSE g.lines[g.hIno[g.out]] < MaxLines

SetLevel(level) ==
  /\ Store(SetLevelOp(G, level))
  /\ last' = [NoLast EXCEPT !.op = "SetLevel"]
  /\ UNCHANGED gvars

\* A call of SetFile by the program.  The open fails on BadPath; a
\* failure to open the log path itself is explored where the rotation
\* opens it again (env.open).
SetFile(fileName, maxSizeKB) ==
  LET r == SetFileOp(G, fileName, maxSizeKB, TRUE) IN
  /\ Store(Collect(r.g))
  /\ last' = [NoLast EXCEPT !.op = "SetFile", !.err = r.err,
                            !.ops = <<"open">>,
                            !.fail = IF r.err THEN {"open"} ELSE {}]
  /\ UNCHANGED gvars

\* Trace, Debug, Info, Warn, Error: llog.go:121-143
Log(e, env) ==
  LET r == loglevel(G, LevelOf(e), env) IN
  /\ Room(r.w.g)
  /\ Store(Collect(r.g))
  /\ last' = [op |-> e,
              rec |-> IF r.dest = "none" THEN "" ELSE PrefixOf(e),
              dest |-> r.dest, err |-> FALSE,
              abort |-> IF r.w.abort THEN "nilptr" ELSE "none",
              ops |-> r.w.ops, fail |-> Failed(r.w.ops, env),
              checked |-> r.w.checked, rotated |-> r.w.rotated,
              replaced |-> r.w.rotated /\ dir[Backup(globFileName)] # 0]
  /\ UNCHANGED gvars

\* Panic.  The panic unwinds the caller; the program goes on when the
\* caller recovers.
Panic ==
  LET r == PanicOp(G) IN
  /\ Room(G)
  /\ Store(Collect(r.g))
  /\ last' = [NoLast EXCEPT !.op = "Panic",
                            !.rec = IF r.dest = "none" THEN "" ELSE PrefixOf("Panic"),
                            !.dest = r.dest,
                            !.abort = IF r.panic THEN "panic" ELSE "none"]
  /\ UNCHANGED gvars

\* A size check is due on the next counted call.
WillCheck == globFile # Nil /\ CheckDue(globCounter + 1)

Next ==
  \/ \E level \in LevelArgs : SetLevel(level)
  \/ \E fileName \in Paths, maxSizeKB \in KBArgs :
       SetFile(fileName, maxSizeKB)
  \/ \E e \in EntryPoints :
       \E env \in (IF WillCheck THEN Envs ELSE {AllOK}) : Log(e, env)
  \/ Panic

Spec == Init /\ [][Next]_vars

\* ------------------------------------------------- concurrent callers
\* Goroutines call the package concurrently.  A step of a goroutine is one
\* line of llog.go, that is at most one access to each shared variable;
\* pc names the line the goroutine executes next.  The standard logger
\* has a mutex of its own: SetOutput and Output are single steps.
ConcLevelArgs == {LvlInfo, LvlWarn}
ConcEntryPoints == {"Info"}
ConcKBArgs == {0}

gl == <<globLevelSet, globFileName, globFile, globMaxSizeKB, globCounter,
        logOutput, dir, lines, hIno, hOpen>>

\* The goroutines start when the program has just been loaded, or after
\* it has, from there, called SetFile(LogPath, kb) and then Info 18 times.
Started ==
  /\ globLevelSet = LvlInfo
  /\ globFileName = LogPath
  /\ globFile = 1
  /\ globMaxSizeKB \in KBArgs
  /\ globCounter = CheckInterval - 2
  /\ logOutput = 1
  /\ dir = [p \in AllPaths |-> IF p = LogPath THEN 1 ELSE 0]
  /\ lines = [i \in Inodes |-> IF i = 1 THEN CheckInterval - 2 ELSE 0]
  /\ hIno = [h \in Handles |-> IF h = 1 THEN 1 ELSE 0]
  /\ hOpen = [h \in Handles |-> h = 1]

InitConc ==
  /\ Init \/ Started
  /\ last = NoLast
  /\ globMutex = 0
  /\ pc = [p \in Procs |-> "idle"]
  /\ frame = [p \in Procs |-> NoFrame]
  /\ ncalls = 0

Goto(p, label) == pc' = [pc EXCEPT ![p] = label]

\* The goroutine enters a function of the package.
Enter(p, label, f) ==
  /\ ncalls < MaxCalls
  /\ ncalls' = ncalls + 1
  /\ Goto(p, label)
  /\ frame' = [frame EXCEPT ![p] = f]
  /\ UNCHANGED <<gl, last, globMutex>>

\* The call returns to the goroutine.
Done(p) ==
  /\ Goto(p, "idle")
  /\ frame' = [frame EXCEPT ![p] = NoFrame]

CallSetLevel(p, level) ==
  /\ pc[p] = "idle"
  /\ Enter(p, "L60", [NoFrame EXCEPT !.op = "SetLevel", !.level = level])

CallSetFile(p, fileName, maxSizeKB) ==
  /\ pc[p] = "idle"
  /\ Enter(p, "L68", [NoFrame EXCEPT !.op = "SetFile", !.fileName = fileName,
                                     !.maxKB = maxSizeKB])

CallLog(p, e) ==
  /\ pc[p] = "idle"
  /\ Enter(p, "L114", [NoFrame EXCEPT !.op = e])

CallPanic(p) ==
  /\ pc[p] = "idle"
  /\ Enter(p, "L148", [NoFrame EXCEPT !.op = "Panic"])

\* llog.go:60
L60(p) ==
  /\ pc[p] = "L60"
  /\ Store(SetLevelOp(G, frame[p].level))
  /\ Done(p)
  /\ UNCHANGED <<last, globMutex, ncalls>>

\* SetFile returns, to the goroutine or into wrapLogIfNeeded (llog.go:108).
ReturnSetFile(p) ==
  IF frame[p].op = "SetFile" THEN Done(p)
  ELSE Goto(p, "L89") /\ UNCHANGED frame

\* llog.go:68
L68(p) ==
  /\ pc[p] = "L68"
  /\ Store([G EXCEPT !.fileName = frame[p].fileName])
  /\ Goto(p, "L69")
  /\ UNCHANGED <<frame, last, globMutex, ncalls>>

\* llog.go:69
L69(p) ==
  /\ pc[p] = "L69"
  /\ \E ok \in BOOLEAN :
       LET o == OpenFile(G, globFileName, ok) IN
       /\ Store(Collect([o.g EXCEPT !.file = o.h]))
       /\ Goto(p, IF o.h = Nil THEN "L71" ELSE "L76")
  /\ UNCHANGED <<frame, last, globMutex, ncalls>>

\* llog.go:71-72
L71(p) ==
  /\ pc[p] = "L71"
  /\ Store(Collect([G EXCEPT !.file = Nil]))
  /\ ReturnSetFile(p)
  /\ UNCHANGED <<last, globMutex, ncalls>>

\* llog.go:76
L76(p) ==
  /\ pc[p] = "L76"
  /\ Store(Collect([G EXCEPT !.out = globFile]))
  /\ Goto(p, "L77")
  /\ UNCHANGED <<frame, last, globMutex, ncalls>>

\* llog.go:77-78
L77(p) ==
  /\ pc[p] = "L77"
  /\ Store([G EXCEPT !.maxKB = frame[p].maxKB])
  /\ ReturnSetFile(p)
  /\ UNCHANGED <<last, globMutex, ncalls>>

\* llog.go:114
L114(p) ==
  /\ pc[p] = "L114"
  /\ IF Passes(LevelOf(frame[p].op), globLevelSet)
     THEN Goto(p, "L88") /\ UNCHANGED frame
     ELSE Done(p)
  /\ UNCHANGED <<gl, last, globMutex, ncalls>>

\* llog.go:88, globMutex.Lock()
L88(p) ==
  /\ pc[p] = "L88"
  /\ globMutex = 0
  /\ globMutex' = p
  /\ Goto(p, "L91")
  /\ UNCHANGED <<gl, frame, last, ncalls>>

\* Mutant of L89: wrapLogIfNeeded returns without unlocking.
L89NoUnlock(p) ==
  /\ pc[p] = "L89"
  /\ Goto(p, "L116")
  /\ UNCHANGED <<gl, frame, last, globMutex, ncalls>>

\* llog.go:89, the deferred globMutex.Unlock(), on a return
L89(p) ==
  /\ pc[p] = "L89"
  /\ globMutex' = 0
  /\ Goto(p, "L116")
  /\ frame' = [frame EXCEPT ![p].onFile = globFile # Nil /\ logOutput = globFile]
  /\ UNCHANGED <<gl, last, ncalls>>

\* llog.go:89, the deferred globMutex.Unlock(), on the run-time panic of
\* llog.go:101; the panic then unwinds the caller.
L89panic(p) ==
  /\ pc[p] = "L89panic"
  /\ globMutex' = 0
  /\ Done(p)
  /\ UNCHANGED <<gl, last, ncalls>>

\* llog.go:91-94
L91(p) ==
  /\ pc[p] = "L91"
  /\ Goto(p, IF globFile = Nil THEN "L89" ELSE "L96")
  /\ UNCHANGED <<gl, frame, last, globMutex, ncalls>>

\* llog.go:96
L96(p) ==
  /\ pc[p] = "L96"
  /\ Store([G EXCEPT !.counter = @ + 1])
  /\ Goto(p, "L97")
  /\ UNCHANGED <<frame, last, globMutex, ncalls>>

\* llog.go:97-98
L97(p) ==
  /\ pc[p] = "L97"
  /\ IF CheckDue(globCounter)
     THEN Store([G EXCEPT !.counter = 0]) /\ Goto(p, "L100")
     ELSE UNCHANGED gl /\ Goto(p, "L89")
  /\ UNCHANGED <<frame, last, globMutex, ncalls>>

\* llog.go:99-100, and the use of info at llog.go:101
L100(p) ==
  /\ pc[p] = "L100"
  /\ \E ok \in BOOLEAN :
       IF StatOK(G, globFile, ok)
       THEN /\ frame' = [frame EXCEPT ![p].size = Size(G, globFile)]
            /\ Goto(p, "L101")
       ELSE /\ UNCHANGED frame
            /\ Goto(p, "L89panic")
  /\ UNCHANGED <<gl, last, globMutex, ncalls>>

\* llog.go:101
L101(p) ==
  /\ pc[p] = "L101"
  /\ Goto(p, IF TimeToWrap(frame[p].size, globMaxSizeKB) THEN "L103" ELSE "L89")
  /\ UNCHANGED <<gl, frame, last, globMutex, ncalls>>

\* llog.go:103
\* Mutant of L103: the output is not redirected before the file is closed.
L103NoRedirect(p) ==
  /\ pc[p] = "L103"
  /\ Goto(p, "L104")
  /\ UNCHANGED <<gl, frame, last, globMutex, ncalls>>

L103(p) ==
  /\ pc[p] = "L103"
  /\ Store(Collect([G EXCEPT !.out = Stderr]))
  /\ Goto(p, "L104")
  /\ UNCHANGED <<frame, last, globMutex, ncalls>>

\* llog.go:104
L104(p) ==
  /\ pc[p] = "L104"
  /\ Store(Close(G, globFile))
  /\ Goto(p, "L106")
  /\ UNCHANGED <<frame, last, globMutex, ncalls>>

\* llog.go:105-106
L106(p) ==
  /\ pc[p] = "L106"
  /\ \E ok \in BOOLEAN :
       Store(Collect(Remove(G, Backup(globFileName), ok)))
  /\ frame' = [frame EXCEPT ![p].backup = Backup(globFileName)]
  /\ Goto(p, "L107")
  /\ UNCHANGED <<last, globMutex, ncalls>>

\* llog.go:107
L107(p) ==
  /\ pc[p] = "L107"
  /\ \E ok \in BOOLEAN :
       Store(Collect(Rename(G, globFileName, frame[p].backup, ok)))
  /\ Goto(p, "L108")
  /\ UNCHANGED <<frame, last, globMutex, ncalls>>

\* llog.go:108, the arguments of the call of SetFile
L108(p) ==
  /\ pc[p] = "L108"
  /\ frame' = [frame EXCEPT ![p].fileName = globFileName,
                            ![p].maxKB = globMaxSizeKB]
  /\ Goto(p, "L68")
  /\ UNCHANGED <<gl, last, globMutex, ncalls>>

\* llog.go:116
L116(p) ==
  /\ pc[p] = "L116"
  /\ Room(G)
  /\ Store(Collect(Output(G).g))
  /\ Done(p)
  /\ UNCHANGED <<last, globMutex, ncalls>>

\* llog.go:148
L148(p) ==
  /\ pc[p] = "L148"
  /\ IF Passes(LvlPanic, globLevelSet)
     THEN Goto(p, "L149") /\ UNCHANGED frame
     ELSE Done(p)
  /\ UNCHANGED <<gl, last, globMutex, ncalls>>

\* llog.go:149-150
L149(p) ==
  /\ pc[p] = "L149"
  /\ Room(G)
  /\ Store(Collect(Output(G).g))
  /\ Done(p)
  /\ UNCHANGED <<last, globMutex, ncalls>>

NextConc ==
  \E p \in Procs :
    \/ \E level \in ConcLevelArgs : CallSetLevel(p, level)
    \/ \E fileName \in Paths, maxSizeKB \in ConcKBArgs :
         CallSetFile(p, fileName, maxSizeKB)
    \/ \E e \in ConcEntryPoints : CallLog(p, e)
    \/ CallPanic(p)
    \/ L60(p) \/ L68(p) \/ L69(p) \/ L71(p) \/ L76(p) \/ L77(p)
    \/ L114(p) \/ L88(p) \/ L89(p) \/ L89panic(p) \/ L91(p) \/ L96(p)
    \/ L97(p) \/ L100(p) \/ L101(p) \/ L103(p) \/ L104(p) \/ L106(p)
    \/ L107(p) \/ L108(p) \/ L116(p) \/ L148(p) \/ L149(p)

SpecConc == InitConc /\ [][NextConc]_vars

\* A goroutine inside a call takes its next step: the scheduler runs
\* every runnable goroutine eventually, and a goroutine blocked in Lock
\* is runnable once the mutex is free.  Callers need not call.
Run(p) ==
  \/ L60(p) \/ L68(p) \/ L69(p) \/ L71(p) \/ L76(p) \/ L77(p)
  \/ L114(p) \/ L88(p) \/ L89(p) \/ L89panic(p) \/ L91(p) \/ L96(p)
  \/ L97(p) \/ L100(p) \/ L101(p) \/ L103(p) \/ L104(p) \/ L106(p)
  \/ L107(p) \/ L108(p) \/ L116(p) \/ L148(p) \/ L149(p)

\* Goroutines that call the log entry points only.
NextLogs ==
  \E p \in Procs :
    \/ \E e \in ConcEntryPoints : CallLog(p, e)
    \/ CallPanic(p)
    \/ L68(p) \/ L69(p) \/ L71(p) \/ L76(p) \/ L77(p)
    \/ L114(p) \/ L88(p) \/ L89(p) \/ L89panic(p) \/ L91(p) \/ L96(p)
    \/ L97(p) \/ L100(p) \/ L101(p) \/ L103(p) \/ L104(p) \/ L106(p)
    \/ L107(p) \/ L108(p) \/ L116(p) \/ L148(p) \/ L149(p)

SpecLogs == InitConc /\ [][NextLogs]_vars

SpecLive == SpecLogs /\ \A p \in Procs : WF_vars(Run(p))

\* The shared variables that the next step of goroutine p reads or writes.
Access(p) ==
  LET rd(v) == [v |-> v, w |-> FALSE]
      wr(v) == [v |-> v, w |-> TRUE]
      at == pc[p]
  IN CASE at = "L60" -> {wr("globLevelSet")}
       [] at = "L68" -> {wr("globFileName")}
       [] at = "L69" -> {rd("globFileName"), wr("globFile")}
       [] at = "L71" -> {wr("globFile")}
       [] at = "L76" -> {rd("globFile")}
       [] at = "L77" -> {wr("globMaxSizeKB")}
       [] at = "L114" -> {rd("globLevelSet")}
       [] at = "L91" -> {rd("globFile")}
       [] at = "L96" -> {wr("globCounter")}
       [] at = "L97" -> {wr("globCounter")}
       [] at = "L100" -> {rd("globFile")}
       [] at = "L101" -> {rd("globMaxSizeKB")}
       [] at = "L104" -> {rd("globFile")}
       [] at = "L106" -> {rd("globFileName")}
       [] at = "L107" -> {rd("globFileName")}
       [] at = "L108" -> {rd("globFileName"), rd("globMaxSizeKB")}
       [] at = "L148" -> {rd("globLevelSet")}
       [] OTHER -> {}

\* =============================================================== claims
LogOps == EntryPoints \cup {"Panic"}

\* The call passed the gate: its level is at least the level set.
Gated(op, levelSet) == LevelOf(op) >= levelSet

\* C1: for every entry point and every level set by SetLevel, a call
\* writes exactly one record, with the entry point's prefix, when its
\* level is at least the level set, and writes nothing when it is below.
C1_Claim ==
  last.op \in LogOps =>
    IF Gated(last.op, globLevelSet)
    THEN last.rec = PrefixOf(last.op) /\ last.dest \in {"stderr", "file"}
    ELSE last.rec = "" /\ last.dest = "none"

\* C2: a call of Panic always raises the abort, whatever level SetLevel
\* has stored.
C2_Claim == last.op = "Panic" => last.abort = "panic"

\* C3: a SetFile that fails leaves the active file, its path, its size
\* limit and the logger's output as they were.
C3_Claim ==
  [][(last'.op = "SetFile" /\ last'.err) =>
       UNCHANGED <<globFile, globFileName, globMaxSizeKB, logOutput>>]_vars

\* C4: between calls the active file and the logger's output agree: with
\* no active file the output is the default stream, with an active file
\* the output is that file.
C4_Claim ==
  /\ globFile = Nil => logOutput = Stderr
  /\ globFile # Nil => logOutput = globFile

\* C5: a successful SetFile resets the rotation counter to 0.
C5_Claim == (last.op = "SetFile" /\ ~last.err) => globCounter = 0

\* C5, amended: a successful SetFile makes the opened file the active
\* file and the logger's output and leaves the rotation counter as it
\* was; a size check fires on exactly the gated call (of Trace .. Error,
\* file active) that takes the counter to 20.
C5_Amended ==
  [][/\ (last'.op = "SetFile" /\ ~last'.err) =>
          /\ globFile' # Nil
          /\ logOutput' = globFile'
          /\ hOpen'[globFile']
          /\ hIno'[globFile'] = dir'[globFileName']
          /\ globCounter' = globCounter
     /\ last'.op \in EntryPoints =>
          (last'.checked <=>
             /\ Gated(last'.op, globLevelSet)
             /\ globFile # Nil
             /\ globCounter + 1 = CheckInterval)]_vars

\* C5 witness: a SetFile has succeeded with the counter not at 0.
C5_Witness == last.op = "SetFile" /\ ~last.err /\ globCounter > 0

\* The size check fires on this step, reads the size of the active file
\* and finds it at or above the limit.
CheckAtLimit ==
  /\ last'.op \in EntryPoints
  /\ Gated(last'.op, globLevelSet)
  /\ globFile # Nil
  /\ globCounter + 1 >= CheckInterval
  /\ "stat" \notin last'.fail
  /\ (lines[hIno[globFile]] * LineBytes) \div BytesPerKB >= globMaxSizeKB

\* After the step the previous content is at path.1, a fresh file is the
\* active file at path, and the record of the call is its only line.
Rotated ==
  /\ globFileName' = globFileName
  /\ dir'[Backup(globFileName)] # 0
  /\ lines'[dir'[Backup(globFileName)]] = lines[hIno[globFile]]
  /\ globFile' # Nil
  /\ hOpen'[globFile']
  /\ hIno'[globFile'] = dir'[globFileName]
  /\ dir'[globFileName] # dir'[Backup(globFileName)]
  /\ logOutput' = globFile'
  /\ last'.dest = "file"
  /\ lines'[dir'[globFileName]] = 1

RotationOps == {"close", "remove", "rename", "open"}

\* C7: a call in which the counter does not reach 20 performs no step of
\* a rotation (close, remove, rename, re-open) and leaves the directory
\* as it is, even when the file is at or above its limit.
C7_NoEarlyRotation ==
  [][(/\ last'.op \in LogOps
      /\ \/ last'.rotated
         \/ \E k \in 1 .. Len(last'.ops) : last'.ops[k] \in RotationOps
         \/ dir' # dir
         \/ globFile' # globFile)
       => globCounter + 1 >= CheckInterval]_vars

\* C7 witness: a call has written to the active file without a size
\* check, and the file was at or above a limit of 1 KB before the call.
C7_Witness ==
  /\ last.op \in EntryPoints
  /\ last.dest = "file"
  /\ ~last.checked
  /\ globFile # Nil
  /\ globMaxSizeKB = 1
  /\ ((lines[hIno[globFile]] - 1) * LineBytes) \div BytesPerKB >= globMaxSizeKB

\* C9: a failure of a file-system call of the size check or the rotation
\* is swallowed: the call returns normally and its record is written to
\* the file or to the default stream.
C9_Claim ==
  (last.op \in EntryPoints /\ last.fail # {}) =>
    (last.abort = "none" /\ last.dest \in {"file", "stderr"})

\* C10: while no file is active (globFile is nil) a log call performs no
\* file-system call, leaves the counter and the files as they are, and
\* its record, if any, goes to the default stream.
C10_Claim ==
  [][(last'.op \in LogOps /\ globFile = Nil) =>
       /\ last'.ops = <<>>
       /\ globCounter' = globCounter
       /\ dir' = dir
       /\ lines' = lines
       /\ last'.dest \in {"none", "stderr"}]_vars

\* After the step the backup holds the content the active file had
\* before it, no file other than the log file and its backup exists, and
\* no other content (an older generation) is left.
OneBackup ==
  LET name == globFileName
      backup == Backup(globFileName)
  IN /\ dir'[backup] # 0
     /\ lines'[dir'[backup]] = lines[hIno[globFile]]
     /\ \A p \in AllPaths \ {name, backup} : dir'[p] = 0
     /\ \A i \in Inodes \ {dir'[name], dir'[backup]} :
          /\ \A p \in AllPaths : dir'[p] # i
          /\ \A h \in Handles : hIno'[h] # i
          /\ lines'[i] = 0

GatedOnFile(ops) ==
  /\ last'.op \in ops
  /\ Gated(last'.op, globLevelSet)
  /\ globFile # Nil

\* The call counts: the counter goes up by one, or wraps to 0 at 20 with
\* the size check run; when the check rotates with no failed call, the
\* record of the call is the only line of the new file.
Counted ==
  /\ globCounter' = IF globCounter + 1 >= CheckInterval THEN 0
                    ELSE globCounter + 1
  /\ last'.checked <=> globCounter + 1 >= CheckInterval
  /\ (last'.rotated /\ last'.fail = {}) =>
       /\ last'.dest = "file"
       /\ globFile' # Nil
       /\ lines'[hIno'[globFile']] = 1

C13_Claim ==
  \A p \in Procs :
    (pc[p] = "L116" /\ frame[p].onFile) => logOutput # Stderr

\* C14: under any interleaving of concurrent log calls the rotation
\* redirects the output to the default stream before it closes the
\* active file and points it at a file again only after the re-open
\* succeeded: the logger's output is never a closed (or nil) file.
C14_OutputOpen ==
  /\ logOutput # Nil
  /\ logOutput # Stderr => hOpen[logOutput]
  /\ \A p \in Procs :
       /\ pc[p] = "L104" => logOutput = Stderr
       /\ pc[p] = "L76" => (globFile # Nil /\ hOpen[globFile])

\* C14 witness: a rotation has closed the active file and another
\* goroutine is about to emit its record.
C14_Witness ==
  \E p, q \in Procs :
    /\ pc[p] = "L106"
    /\ pc[q] = "L116"
    /\ globFile # Nil
    /\ ~hOpen[globFile]
    /\ logOutput = Stderr

\* No file is active and the logger writes to the default stream.
NoDestination == globFile = Nil /\ logOutput = Stderr

\* C15: when the re-open at the end of a rotation fails, no file is
\* active afterwards and the output stays on the default stream: the
\* call that rotated and every later log call write to the default
\* stream, and later log calls run no size check and no rotation, until
\* a SetFile succeeds.
C15_ReopenFails ==
  [][/\ (last'.rotated /\ "open" \in last'.fail) =>
          /\ NoDestination'
          /\ last'.dest = "stderr"
     /\ (NoDestination /\ ~(last'.op = "SetFile" /\ ~last'.err)) =>
          /\ NoDestination'
          /\ last'.op \in LogOps =>
               /\ last'.dest = IF Gated(last'.op, globLevelSet)
                               THEN "stderr" ELSE "none"
               /\ ~last'.checked
               /\ ~last'.rotated
               /\ last'.ops = <<>>
               /\ UNCHANGED <<globCounter, dir, lines>>]_vars

\* C15 witness: after a rotation whose re-open failed (the backup exists,
\* the log path does not, no file is active) a later log call has
\* written its record to the default stream.
C15_Witness ==
  /\ last.op \in EntryPoints
  /\ ~last.rotated
  /\ last.dest = "stderr"
  /\ globFile = Nil
  /\ globFileName = LogPath
  /\ dir[LogPath] = 0
  /\ dir[Backup(LogPath)] # 0

\* The lines of the size check and the rotation after the counter was
\* reset, and the lines of the SetFile that the rotation calls.
AfterReset(p) ==
  \/ pc[p] \in {"L100", "L101", "L103", "L104", "L106", "L107", "L108"}
  \/ pc[p] \in {"L68", "L69", "L71", "L76", "L77"} /\ frame[p].op # "SetFile"

\* C16: with any goroutines calling SetFile, SetLevel and the log entry
\* points, the rotation counter is in 0 .. 19 whenever the mutex is free,
\* and it is 0 from the reset of a size check to the end of the check
\* and of the rotation.
C16_CounterRange ==
  /\ globCounter \in 0 .. CheckInterval
  /\ globMutex = 0 => globCounter \in 0 .. (CheckInterval - 1)
  /\ \A p \in Procs : AfterReset(p) => globCounter = 0

\* C16 witness: a call has rotated and released the mutex, and the
\* counter is observed from outside the lock.
C16_Witness ==
  \E p \in Procs :
    /\ pc[p] = "L116"
    /\ frame[p].backup # ""
    /\ globMutex = 0
    /\ globCounter = 0

\* C17: when a size check fires, the file is rotated exactly when its
\* size in bytes, divided by 1024 and rounded down, is at least the
\* limit: never below the limit, always at or above it, and always with
\* a limit of 0.
C17_Claim ==
  [][(last'.op \in EntryPoints /\ last'.checked) =>
       (last'.rotated <=>
          (lines[hIno[globFile]] * LineBytes) \div BytesPerKB
             >= globMaxSizeKB)]_vars

\* A call writes a record while a file is active and at or above its
\* limit, and no file-system call of it fails.
WritesAtLimit(ops) ==
  /\ last'.op \in ops
  /\ last'.dest # "none"
  /\ last'.fail = {}
  /\ globFile # Nil
  /\ logOutput = globFile
  /\ (lines[hIno[globFile]] * LineBytes) \div BytesPerKB >= globMaxSizeKB

\* The call rotates the file, or takes the counter one step closer to
\* the size check.
RotatesOrCounts ==
  \/ last'.rotated
  \/ globCounter' = globCounter + 1 /\ globCounter' < CheckInterval

C19_SuppressedNoEffect ==
  [][(last'.op \in LogOps /\ ~Gated(last'.op, globLevelSet)) =>
       /\ UNCHANGED <<globLevelSet, globFileName, globFile, globMaxSizeKB,
                      globCounter, logOutput, dir, lines, hIno, hOpen>>
       /\ last'.dest = "none"
       /\ last'.rec = ""
       /\ last'.ops = <<>>
       /\ ~last'.checked
       /\ ~last'.rotated
       /\ last'.abort = "none"]_vars

\* C19 witness: a call of Trace was suppressed while a file at or above
\* its limit was active and the size check was due on the next counted
\* call.
C19_Witness ==
  /\ last.op = "Trace"
  /\ last.dest = "none"
  /\ globLevelSet > LvlTrace
  /\ globFile # Nil
  /\ globMaxSizeKB = 0
  /\ globCounter = CheckInterval - 1

\* The lines at which the goroutine holds the mutex.
Locked(p) ==
  \/ pc[p] \in {"L91", "L96", "L97", "L100", "L101", "L103", "L104",
                 "L106", "L107", "L108", "L89", "L89panic"}
  \/ pc[p] \in {"L68", "L69", "L71", "L76", "L77"} /\ frame[p].op # "SetFile"

\* C20: no log call deadlocks: the mutex is held by exactly the goroutine
\* inside wrapLogIfNeeded and is released on every path out of it, the
\* SetFile called by the rotation does not wait for it, and every log
\* call, once made, gets the mutex and ends.
C20_NoDeadlock ==
  /\ [](\A p \in Procs : Locked(p) <=> globMutex = p)
  /\ \A p \in Procs : (frame[p].op \in LogOps) ~> (pc[p] = "idle")

\* C20 witness: a log call waits for the mutex while the rotation of
\* another log call holds it at the return of a failed re-open.
C20_Witness ==
  \E p, q \in Procs :
    /\ pc[p] = "L88"
    /\ pc[q] = "L71"
    /\ frame[q].op \in LogOps
    /\ globMutex = q

\* C8: every read and write of the shared variables happens while the
\* goroutine holds globMutex, and no two goroutines are about to access
\* the same shared variable with one of them writing.
C8_Claim ==
  /\ \A p \in Procs : Access(p) # {} => globMutex = p
  /\ \A p, q \in Procs :
       p # q =>
         \A a \in Access(p), b \in Access(q) : a.v = b.v => ~(a.w \/ b.w)

====
